---- MODULE Spec2Model ----
(***************************************************************************)
(* Model of marimo's cell compiler (marimo/_ast/compiler.py).              *)
(*                                                                         *)
(* A cell's text is a sequence of lexical items.  Every item stands for a  *)
(* concrete piece of Python text:                                          *)
(*    "x"    x                     an expression statement                 *)
(*    "a"    y=1                   an assignment                           *)
(*    "i"    import os             an import statement                     *)
(*    "j"    import os as x        an import under another name            *)
(*    "t"    def test_a(): pass    a one-line function definition          *)
(*    "T"    class TestB: pass     a one-line class definition             *)
(*    "f"    def f(): pass         a one-line function definition          *)
(*    "l"    _z=1                  an assignment to a cell-local name      *)
(*    "r"    return 0              a return statement                      *)
(*    ";"    ;                     "nl"  a newline      "sp"  a space      *)
(*    "nbsp" U+00A0                "#"   #c  (a comment; it extends to the *)
(*                                       end of the physical line)         *)
(* File names and cell ids are sequences of one-character strings.         *)
(***************************************************************************)
EXTENDS Integers, Sequences, FiniteSets, TLC

\* ------------------------------------------------------------------ bounds
MaxLen == 3
MaxIdLen == 3
MaxSuffixLen == 1

\* ------------------------------------------------------------- the texts
SimpleItems == {"x", "a", "l", "i", "j", "r"}
CompoundItems == {"t", "T", "f"}
StmtItems == SimpleItems \cup CompoundItems
Items == StmtItems \cup {";", "nl", "sp", "nbsp", "#"}

SeqsUpTo(S, n) == UNION {[1..k -> S] : k \in 0..n}

Texts == SeqsUpTo(Items, MaxLen)

Width(item) ==
  CASE item = "x" -> 1
    [] item = "a" -> 3
    [] item = "l" -> 4
    [] item = "i" -> 9
    [] item = "j" -> 14
    [] item = "t" -> 18
    [] item = "T" -> 17
    [] item = "f" -> 13
    [] item = "r" -> 8
    [] item = "#" -> 2
    [] OTHER -> 1

RECURSIVE SumWidth(_, _, _)
SumWidth(code, lo, hi) ==
  IF lo > hi THEN 0 ELSE Width(code[lo]) + SumWidth(code, lo + 1, hi)

\* len(code)
StrLen(code) == SumWidth(code, 1, Len(code))

\* code.replace("\u00a0", " ")
ReplaceNbsp(code) ==
  [k \in 1..Len(code) |-> IF code[k] = "nbsp" THEN "sp" ELSE code[k]]

\* str.strip(): drops leading and trailing whitespace
IsSpace(item) == item \in {"sp", "nl", "nbsp"}

Strip(code) ==
  LET keep == {k \in 1..Len(code) : ~IsSpace(code[k])}
  IN IF keep = {} THEN <<>>
     ELSE LET lo == CHOOSE k \in keep : \A j \in keep : k <= j
              hi == CHOOSE k \in keep : \A j \in keep : j <= k
          IN SubSeq(code, lo, hi)

\* ----------------------------------------------------- lexical structure
\* index of the first item of the physical line that holds item k
LineStart(code, k) ==
  LET starts == {j \in 1..k : j = 1 \/ code[j - 1] = "nl"}
  IN CHOOSE j \in starts : \A m \in starts : m <= j

LineOf(code, k) == 1 + Cardinality({j \in 1..(k - 1) : code[j] = "nl"})

ColOf(code, k) == SumWidth(code, LineStart(code, k), k - 1)

\* item k lies inside a comment opened earlier on its line
InComment(code, k) ==
  \E j \in LineStart(code, k)..(k - 1) : code[j] = "#"

\* item k is a token of the grammar (not whitespace, newline or comment)
IsSig(code, k) ==
  /\ ~InComment(code, k)
  /\ code[k] \notin {"sp", "nl", "#"}

\* the previous grammar token on the line of k, 0 if k is the first one
PrevSig(code, k) ==
  LET before == {j \in LineStart(code, k)..(k - 1) : IsSig(code, j)}
  IN IF before = {} THEN 0
     ELSE CHOOSE j \in before : \A m \in before : m <= j

FirstSig(code, k) ==
  LET onLine == {j \in LineStart(code, k)..k : IsSig(code, j)}
  IN CHOOSE j \in onLine : \A m \in onLine : j <= m

\* the last grammar token of the line of k (a suite's closing ";" included)
LastSigOnLine(code, k) ==
  LET onLine == {j \in k..Len(code) :
                   /\ LineStart(code, j) = LineStart(code, k)
                   /\ IsSig(code, j)}
  IN CHOOSE j \in onLine : \A m \in onLine : m <= j

\* ------------------------------------------------------------ the parser
\* compile(code, "<unknown>", mode="exec", flags=PyCF_ONLY_AST | ...)
\* A logical line is  stmt (";" simple_stmt)* [";"]  starting in column 0;
\* a compound statement may only start a line and its one-line suite takes
\* the rest of the line.
TokenOk(code, k) ==
  LET p == PrevSig(code, k)
  IN IF code[k] = "nbsp" THEN FALSE
     ELSE IF code[k] = ";" THEN p # 0 /\ code[p] \in StmtItems
     ELSE IF p = 0 THEN k = LineStart(code, k)
     ELSE code[p] = ";" /\ code[k] \in SimpleItems

SyntaxOk(code) == \A k \in 1..Len(code) : IsSig(code, k) => TokenOk(code, k)

Kind(item) ==
  CASE item = "x" -> "Expr"
    [] item = "a" -> "Assign"
    [] item = "l" -> "Assign"
    [] item = "i" -> "Import"
    [] item = "j" -> "Import"
    [] item = "t" -> "FunctionDef"
    [] item = "T" -> "ClassDef"
    [] item = "f" -> "FunctionDef"
    [] item = "r" -> "Return"

NameOf(item) ==
  CASE item = "x" -> <<"x">>
    [] item = "a" -> <<"y">>
    [] item = "l" -> <<"_", "z">>
    [] item = "i" -> <<"o", "s">>
    [] item = "j" -> <<"x">>
    [] item = "t" -> <<"t", "e", "s", "t", "_", "a">>
    [] item = "T" -> <<"T", "e", "s", "t", "B">>
    [] item = "f" -> <<"f">>
    [] item = "r" -> <<>>

LocationAttrs == {"lineno", "col_offset", "end_lineno", "end_col_offset"}

\* the ast node of the statement whose first token is item k; has is the set
\* of location attributes the node carries
StmtNode(code, k) ==
  LET last == IF code[k] \in CompoundItems THEN LastSigOnLine(code, k) ELSE k
  IN [kind |-> Kind(code[k]),
      name |-> NameOf(code[k]),
      inner |-> {code[j] : j \in {m \in (k + 1)..last : IsSig(code, m)}}
                   \ {";"},
      lineno |-> LineOf(code, k),
      col_offset |-> ColOf(code, k),
      end_lineno |-> LineOf(code, k),
      end_col_offset |-> ColOf(code, last) + Width(code[last]),
      has |-> LocationAttrs]

\* item k starts a top-level statement
IsTopLevel(code, k) ==
  /\ IsSig(code, k)
  /\ code[k] \in StmtItems
  /\ (code[FirstSig(code, k)] \in CompoundItems => FirstSig(code, k) = k)

RECURSIVE BodyFrom(_, _)
BodyFrom(code, k) ==
  IF k > Len(code) THEN <<>>
  ELSE IF IsTopLevel(code, k) THEN <<StmtNode(code, k)>> \o BodyFrom(code, k + 1)
  ELSE BodyFrom(code, k + 1)

\* module.body of the parsed text
ParseBody(code) == BodyFrom(code, 1)

\* --------------------------------------------------------- the tokenizer
\* tokenize(io.BytesIO(text.encode("utf-8")).readline): whitespace yields no
\* token, a comment is one token up to the end of its line.  The items have
\* one-line suites, so a text that parses yields no INDENT or DEDENT.
TokenAt(code, k) ==
  CASE code[k] = "#" -> [type |-> "COMMENT", string |-> "#"]
    [] code[k] = "nl" ->
         [type |-> IF PrevSig(code, k) = 0 THEN "NL" ELSE "NEWLINE",
          string |-> "nl"]
    [] code[k] = ";" -> [type |-> "OP", string |-> ";"]
    [] code[k] = "nbsp" -> [type |-> "ERRORTOKEN", string |-> "nbsp"]
    [] OTHER -> [type |-> "NAME", string |-> code[k]]

RECURSIVE TokensFrom(_, _)
TokensFrom(code, k) ==
  IF k > Len(code) THEN <<>>
  ELSE IF InComment(code, k) \/ code[k] = "sp" THEN TokensFrom(code, k + 1)
  ELSE <<TokenAt(code, k)>> \o TokensFrom(code, k + 1)

Tokenize(code) ==
  <<[type |-> "ENCODING", string |-> "utf-8"]>>
    \o TokensFrom(code, 1)
    \o <<[type |-> "NEWLINE", string |-> ""],
         [type |-> "ENDMARKER", string |-> ""]>>

SkippedTokenTypesNoComment ==
  {"ENDMARKER", "NEWLINE", "NL", "INDENT", "DEDENT", "ENCODING"}

SkippedTokenTypes ==
  {"ENDMARKER", "NEWLINE", "NL", "COMMENT", "INDENT", "DEDENT", "ENCODING"}

\* the loop over reversed(list(tokens)), k counting down from the last token
RECURSIVE ScanBack(_, _)
ScanBack(tokens, k) ==
  IF k = 0 THEN FALSE
  ELSE IF tokens[k].type \in SkippedTokenTypes THEN ScanBack(tokens, k - 1)
  ELSE tokens[k].string = ";"

ends_with_semicolon(code) ==
  LET tokens == Tokenize(Strip(code))
  IN ScanBack(tokens, Len(tokens))

\* ------------------------------------------------------- the classifiers
Lower(ch) ==
  CASE ch = "T" -> "t"
    [] ch = "B" -> "b"
    [] OTHER -> ch

TestPrefix == <<"t", "e", "s", "t">>

\* name.lower().startswith("test")
StartsWithTest(name) ==
  /\ Len(name) >= Len(TestPrefix)
  /\ \A k \in 1..Len(TestPrefix) : Lower(name[k]) = TestPrefix[k]

TestsFromAnyReturn(scope, k) ==
  \/ \E j \in k..Len(scope) : scope[j].kind = "Return"
  \/ /\ Len(scope) > 0
     /\ \A j \in k..Len(scope) :
          /\ scope[j].kind \in {"FunctionDef", "AsyncFunctionDef", "ClassDef"}
          /\ StartsWithTest(scope[j].name)

\* the loop of contains_only_tests over tree.body, from statement k on
RECURSIVE TestsFrom(_, _)
TestsFrom(scope, k) ==
  IF k > Len(scope) THEN Len(scope) > 0
  ELSE IF scope[k].kind = "Return" THEN TRUE
  ELSE IF scope[k].kind \notin {"FunctionDef", "AsyncFunctionDef", "ClassDef"}
    THEN FALSE
  ELSE IF ~StartsWithTest(scope[k].name) THEN FALSE
  ELSE TestsFrom(scope, k + 1)

contains_only_tests(scope) == TestsFrom(scope, 1)

is_import_block(scope) ==
  \A k \in 1..Len(scope) : scope[k].kind \in {"Import", "ImportFrom"}

\* ------------------------------------------------------------ file names
IdChars == {"a", "b", "_"}
SuffixChars == {"a", "_"}

Tmpdir == <<"/", "t">>

CellPrefix ==
  <<"_", "_", "m", "a", "r", "i", "m", "o", "_", "_", "c", "e", "l", "l", "_">>

get_filenameWithoutId(cell_id, suffix) ==
  Tmpdir \o <<"/">> \o CellPrefix \o <<"_">> \o suffix \o <<".", "p", "y">>

\* os.path.join(get_tmpdir(), f"__marimo__cell_{cell_id}_" + suffix + ".py")
get_filename(cell_id, suffix) ==
  Tmpdir \o <<"/">> \o CellPrefix \o cell_id \o <<"_">> \o suffix
    \o <<".", "p", "y">>

\* the regular expression  __marimo__cell_(.*?)_  matches at position p with
\* its group ending before position q
MatchesAt(filename, p, q) ==
  /\ p + Len(CellPrefix) <= q
  /\ q <= Len(filename)
  /\ \A k \in 1..Len(CellPrefix) : filename[p + k - 1] = CellPrefix[k]
  /\ filename[q] = "_"
  /\ \A k \in (p + Len(CellPrefix))..(q - 1) : filename[k] # "nl"

\* re.findall(...)[0]: the leftmost match, its group as short as possible;
\* <<>> stands for None, <<id>> for a recovered id
cell_id_from_filename(filename) ==
  LET ps == {p \in 1..Len(filename) :
               \E q \in 1..Len(filename) : MatchesAt(filename, p, q)}
  IN IF ps = {} THEN <<>>
     ELSE LET p == CHOOSE m \in ps : \A n \in ps : m <= n
              qs == {q \in 1..Len(filename) : MatchesAt(filename, p, q)}
              q == CHOOSE m \in qs : \A n \in qs : m <= n
          IN <<SubSeq(filename, p + Len(CellPrefix), q - 1)>>

\* ------------------------------------------------------------ line cache
RECURSIVE LinesFrom(_, _)
LinesFrom(code, s) ==
  IF s > Len(code) THEN <<>>
  ELSE LET nls == {j \in s..Len(code) : code[j] = "nl"}
           e == IF nls = {} THEN Len(code) + 1
                ELSE CHOOSE j \in nls : \A m \in nls : j <= m
       IN <<SubSeq(code, s, e - 1)>> \o LinesFrom(code, e + 1)

\* code.splitlines()
SplitLines(code) == LinesFrom(code, 1)

\* the tuple cache() stores under filename (its mtime field is None)
CacheEntry(filename, code) ==
  [size |-> StrLen(code),
   lines |-> [k \in 1..Len(SplitLines(code)) |->
                 SplitLines(code)[k] \o <<"nl">>],
   fullname |-> filename]

cacheOnlyLatest(lc, filename, code) ==
  [n \in {filename} |-> CacheEntry(filename, code)]

\* linecache.cache[filename] = (...)
cache(lc, filename, code) ==
  [n \in DOMAIN lc \cup {filename} |->
     IF n = filename THEN CacheEntry(filename, code) ELSE lc[n]]

\* ------------------------------------------------------------- the hash
HashBits == 20

ItemCode(item) ==
  CASE item = "x" -> 1
    [] item = "a" -> 2
    [] item = "l" -> 3
    [] item = "i" -> 4
    [] item = "t" -> 5
    [] item = "T" -> 6
    [] item = "f" -> 7
    [] item = "r" -> 8
    [] item = ";" -> 9
    [] item = "nl" -> 10
    [] item = "sp" -> 11
    [] item = "nbsp" -> 12
    [] item = "#" -> 13
    [] item = "j" -> 14

RECURSIVE HashFrom(_, _, _)
HashFrom(code, k, h) ==
  IF k > Len(code) THEN h
  ELSE HashFrom(code, k + 1, (h * 31 + ItemCode(code[k])) % (2 ^ HashBits))

\* hash(code): a hash of the characters of the text
code_key(code) == HashFrom(code, 1, Len(code))

\* ------------------------------------------------------ position remapper
\* child._attributes: the location attributes the node's type declares; the
\* Module and Expression wrappers and TypeIgnore declare none
Attributes(kind) ==
  IF kind \in {"Module", "Expression", "TypeIgnore"} THEN {} ELSE LocationAttrs

\* getattr(child, attr, 0): end_lineno and end_col_offset read as None when
\* the node does not carry them, lineno and col_offset read as the default
GetAttr(node, attr) ==
  IF attr \in node.has
    THEN CASE attr = "lineno" -> node.lineno
           [] attr = "col_offset" -> node.col_offset
           [] attr = "end_lineno" -> node.end_lineno
           [] attr = "end_col_offset" -> node.end_col_offset
    ELSE 0

ShiftNodeColumnByLine(node, pos) ==
  [node EXCEPT
     !.lineno = GetAttr(node, "lineno") + pos.lineno,
     !.col_offset = GetAttr(node, "col_offset") + pos.lineno,
     !.end_lineno = IF "end_lineno" \in node.has
                      THEN node.end_lineno + pos.lineno ELSE node.end_lineno,
     !.end_col_offset = IF "end_col_offset" \in node.has
                          THEN node.end_col_offset + pos.lineno
                          ELSE node.end_col_offset,
     !.has = node.has \cup {"lineno", "col_offset"}]

\* the body of the loop of fix_source_position for one node of ast.walk
ShiftNode(node, pos) ==
  IF node.kind = "TypeIgnore"
    THEN [node EXCEPT !.lineno = GetAttr(node, "lineno") + pos.lineno,
                      !.has = node.has \cup {"lineno"}]
  ELSE IF Attributes(node.kind) = {} THEN node
  ELSE
  [node EXCEPT
     !.lineno = GetAttr(node, "lineno") + pos.lineno,
     !.col_offset = GetAttr(node, "col_offset") + pos.col_offset,
     !.end_lineno = IF "end_lineno" \in node.has
                      THEN node.end_lineno + pos.lineno ELSE node.end_lineno,
     !.end_col_offset = IF "end_col_offset" \in node.has
                          THEN node.end_col_offset + pos.col_offset
                          ELSE node.end_col_offset,
     !.has = node.has \cup {"lineno", "col_offset"}]

\* fix_source_position(module, source_position)
fix_source_position(stmts, pos) ==
  [k \in 1..Len(stmts) |-> ShiftNode(stmts[k], pos)]

\* fix_source_position(expr, source_position): ast.Expression has no location
\* attributes of its own, only the node it wraps is shifted
fix_expr_position(expr, pos) == [expr EXCEPT !.value = ShiftNode(expr.value, pos)]

\* --------------------------------------------------- the scope visitor
Mangle(cell_id, name) == <<"_", "c", "e", "l", "l", "_">> \o cell_id \o name

is_local(name) == Len(name) > 0 /\ name[1] = "_"

\* ScopedVisitor("cell_" + cell_id).visit(module): defs
VisitorDefs(cell_id, scope) ==
  {IF is_local(scope[k].name) THEN Mangle(cell_id, scope[k].name)
                              ELSE scope[k].name :
     k \in {j \in 1..Len(scope) :
              scope[j].kind \in {"Assign", "Import", "FunctionDef", "ClassDef"}}}

\* the names the statements of the cell bind at the top level
BoundNames(scope) ==
  {scope[k].name :
     k \in {j \in 1..Len(scope) :
              scope[j].kind \in {"Assign", "Import", "FunctionDef", "ClassDef"}}}

\* the names the cell reads: x, by an expression statement or in a body
ReadNames(scope) ==
  IF \E k \in 1..Len(scope) : scope[k].kind = "Expr" \/ "x" \in scope[k].inner
    THEN {<<"x">>} ELSE {}

\* ScopedVisitor("cell_" + cell_id).visit(module): refs, the names
\* referenced but not defined by the cell
VisitorRefs(cell_id, scope) == ReadNames(scope) \ BoundNames(scope)

\* the import descriptor of an import statement: every import item imports
\* the module os as a whole, under the name it binds
ImportedModule == <<"o", "s">>

ImportDataOf(stmt) ==
  [module |-> ImportedModule, imported_symbol |-> <<>>,
   definition |-> stmt.name]

\* the metadata of one definition: its kind and, for an import, its descriptor
VariableDataOf(stmt) ==
  [kind |-> CASE stmt.kind = "Import" -> "import"
              [] stmt.kind = "FunctionDef" -> "function"
              [] stmt.kind = "ClassDef" -> "class"
              [] OTHER -> "variable",
   import_data |-> IF stmt.kind = "Import" THEN <<ImportDataOf(stmt)>>
                                         ELSE <<>>]

\* ScopedVisitor("cell_" + cell_id).visit(module): variable_data, the
\* metadata of the definitions of each defined name
VisitorVariableData(cell_id, scope) ==
  [name \in VisitorDefs(cell_id, scope) |->
     {VariableDataOf(scope[k]) :
        k \in {j \in 1..Len(scope) :
                 /\ scope[j].kind \in {"Assign", "Import", "FunctionDef",
                                        "ClassDef"}
                 /\ name = (IF is_local(scope[j].name)
                              THEN Mangle(cell_id, scope[j].name)
                              ELSE scope[j].name)}}]

\* ------------------------------------------------------------ compile_cell
\* Optional values are sequences of length at most one: <<>> is None.
RewriteOutcomes == {"ok", "missing", "raises", "raises_partial"}

NoNode ==
  [kind |-> "None", name |-> <<>>, inner |-> {}, lineno |-> 0,
   col_offset |-> 0, end_lineno |-> 0, end_col_offset |-> 0, has |-> {}]

NoExpr == [value |-> NoNode, detached |-> FALSE, lineno |-> 0,
           col_offset |-> 0, end_col_offset |-> 0]

\* the frame of a call of compile_cell before its first statement
Frame0(code, cell_id, pos, test_rewrite) ==
  [pc |-> "start", arg |-> code, cell_id |-> cell_id, pos |-> pos,
   test_rewrite |-> test_rewrite, code |-> code, parsed |-> <<>>,
   is_test |-> FALSE, is_import_block |-> FALSE, module |-> <<>>,
   expr |-> NoExpr, filename |-> <<>>, tree |-> "none", attempted |-> FALSE,
   rw |-> "unused", carried |-> <<>>,
   warned |-> FALSE, wrote |-> FALSE, error |-> "", result |-> <<>>]

IdleFrame == [Frame0(<<>>, <<>>, <<>>, FALSE) EXCEPT !.pc = "idle"]

EmptyCellKeyedByText(code, cell_id) ==
  [key |-> code_key(code), code |-> code, mod |-> <<>>, defs |-> {},
   refs |-> {}, temporaries |-> {}, variable_data |-> <<>>,
   is_import_block |-> FALSE, imported_defs |-> {},
   body |-> <<>>, last_expr |-> <<>>, cell_id |-> cell_id, test |-> FALSE]

\* the CellImpl of the early return for an empty body
EmptyCell(code, cell_id) ==
  [key |-> code_key(<<>>), code |-> code, mod |-> <<>>, defs |-> {},
   refs |-> {}, temporaries |-> {}, variable_data |-> <<>>,
   is_import_block |-> FALSE, imported_defs |-> {},
   body |-> <<>>, last_expr |-> <<>>, cell_id |-> cell_id, test |-> FALSE]

\* the value node that replaces the trailing expression when none is used
NoneConstant(code, final_expr) ==
  [kind |-> "Constant", name |-> <<>>, inner |-> {},
   lineno |-> Len(SplitLines(code)) + 1,
   col_offset |-> final_expr.end_col_offset,
   end_lineno |-> 0,
   end_col_offset |-> final_expr.end_col_offset,
   has |-> {"lineno", "col_offset", "end_col_offset"}]

\* lines 195-213: split the trailing value off the module
SplitDetaches(code, scope) ==
  scope[Len(scope)].kind = "Expr" /\ ~ends_with_semicolon(code)

SplitModule(code, scope) ==
  IF SplitDetaches(code, scope) THEN SubSeq(scope, 1, Len(scope) - 1) ELSE scope

SplitExpr(code, scope) ==
  LET final_expr == scope[Len(scope)]
  IN IF SplitDetaches(code, scope)
       THEN [value |-> [final_expr EXCEPT !.kind = "Name"],
             detached |-> TRUE,
             lineno |-> final_expr.lineno,
             col_offset |-> final_expr.end_col_offset,
             end_col_offset |-> final_expr.end_col_offset]
       ELSE [value |-> NoneConstant(code, final_expr),
             detached |-> FALSE,
             lineno |-> Len(SplitLines(code)) + 1,
             col_offset |-> final_expr.end_col_offset,
             end_col_offset |-> final_expr.end_col_offset]

\* lines 161-213: normalise, parse, classify, split
ParseStep(f) ==
  LET code == ReplaceNbsp(f.arg)
      scope == ParseBody(code)
  IN IF ~SyntaxOk(code)
       THEN [f EXCEPT !.pc = "raised", !.code = code, !.error = "SyntaxError"]
     ELSE IF Len(scope) = 0
       THEN [f EXCEPT !.pc = "returned", !.code = code,
                      !.result = <<EmptyCell(code, f.cell_id)>>]
     ELSE [f EXCEPT !.pc = "position", !.code = code, !.parsed = scope,
                    !.is_test = contains_only_tests(scope),
                    !.is_import_block = is_import_block(scope),
                    !.module = SplitModule(code, scope),
                    !.expr = SplitExpr(code, scope)]

\* lines 215-226: remap to the anchor, or register the text in the line cache
PositionFrame(f) ==
  IF f.pos # <<>>
    THEN [f EXCEPT !.pc = "rewrite",
                   !.module = fix_source_position(f.module, f.pos[1]),
                   !.expr = fix_expr_position(f.expr, f.pos[1]),
                   !.filename = f.pos[1].filename]
    ELSE [f EXCEPT !.pc = "rewrite", !.filename = get_filename(f.cell_id, <<>>),
                   !.wrote = TRUE]

PositionCache(f, lc) ==
  IF f.pos # <<>> THEN lc ELSE cache(lc, get_filename(f.cell_id, <<>>), f.code)

RewriteStepUncaught(f, rw) ==
  IF f.is_test \/ f.test_rewrite
    THEN IF rw = "ok"
           THEN [f EXCEPT !.pc = "compile", !.attempted = TRUE, !.rw = rw,
                          !.tree = "rewritten"]
           ELSE [f EXCEPT !.pc = "raised", !.attempted = TRUE, !.rw = rw,
                          !.error = "Exception"]
    ELSE [f EXCEPT !.pc = "compile"]

\* lines 228-241: the optional assertion rewriting; rw is what the rewriting
\* facility does when it is called: it rewrites the tree in place ("ok"), it
\* cannot be imported ("missing"), or it raises, before ("raises") or after
\* ("raises_partial") it has started to change the tree
RewriteStep(f, rw) ==
  IF f.is_test \/ f.test_rewrite
    THEN [f EXCEPT !.pc = "compile", !.attempted = TRUE, !.rw = rw,
                   !.warned = (rw # "ok"),
                   !.tree = CASE rw = "ok" -> "rewritten"
                              [] rw = "raises_partial" -> "partial"
                              [] OTHER -> "none"]
    ELSE [f EXCEPT !.pc = "compile"]

\* compile(module, filename, mode="exec", ...): a return statement outside a
\* function is rejected when the tree is compiled, not when it is parsed
BodyCompiles(stmts) == \A k \in 1..Len(stmts) : stmts[k].kind # "Return"

CellKeyOfStrippedText(f) == code_key(Strip(f.code))

CellKeyOfRewrittenTree(f) ==
  IF f.tree = "none" THEN code_key(f.code) ELSE code_key(f.code \o <<"i">>)

\* line 275: key=code_key(code)
CellKey(f) == code_key(f.code)

\* lines 251-252: the defined names that are not local, and the local ones
Nonlocals(defined) == {name \in defined : ~is_local(name)}

TemporariesAllDefs(defined) == defined

Temporaries(defined) == defined \ Nonlocals(defined)

\* lines 253-257: the metadata of the names that are not local
variable_data(nonlocals, visited) ==
  [name \in nonlocals \cap DOMAIN visited |-> visited[name]]

imported_defsByName(block, carried, data) ==
  IF block /\ carried # <<>>
    THEN {datum.import_data[1].definition :
            datum \in {d \in UNION {data[name] : name \in DOMAIN data} :
                         /\ d.import_data # <<>>
                         /\ \E previous_import_data \in carried[1] :
                              previous_import_data.definition =
                                d.import_data[1].definition}}
    ELSE {}

\* lines 259-271: the definitions carried over from carried_imports
imported_defs(block, carried, data) ==
  IF block /\ carried # <<>>
    THEN {datum.import_data[1].definition :
            datum \in {d \in UNION {data[name] : name \in DOMAIN data} :
                         /\ d.import_data # <<>>
                         /\ \E previous_import_data \in carried[1] :
                              previous_import_data = d.import_data[1]}}
    ELSE {}

\* lines 243-292: compile both artifacts and assemble the CellImpl
CompileStep(f) ==
  IF ~BodyCompiles(f.module)
    THEN [f EXCEPT !.pc = "raised", !.error = "SyntaxError"]
    ELSE LET defined == VisitorDefs(f.cell_id, f.parsed)
             nonlocals == Nonlocals(defined)
             data == variable_data(nonlocals,
                                   VisitorVariableData(f.cell_id, f.parsed))
         IN [f EXCEPT
               !.pc = "returned",
               !.result =
                 <<[key |-> CellKey(f), code |-> f.code,
                    mod |-> f.parsed, defs |-> nonlocals,
                    refs |-> VisitorRefs(f.cell_id, f.parsed),
                    temporaries |-> Temporaries(defined),
                    variable_data |-> data,
                    is_import_block |-> f.is_import_block,
                    imported_defs |-> imported_defs(f.is_import_block,
                                                    f.carried, data),
                    body |-> <<[stmts |-> f.module, filename |-> f.filename,
                                tree |-> f.tree]>>,
                    last_expr |-> <<[expr |-> f.expr,
                                     filename |-> f.filename]>>,
                    cell_id |-> f.cell_id, test |-> f.is_test]>>]

\* a call of compile_cell from its first statement: the final frame and the
\* line cache it leaves
RunFrame(f0, rw, lc) ==
  LET f1 == ParseStep(f0)
  IN IF f1.pc # "position" THEN [frame |-> f1, lc |-> lc]
     ELSE LET f3 == RewriteStep(PositionFrame(f1), rw)
          IN [frame |-> IF f3.pc # "compile" THEN f3 ELSE CompileStep(f3),
              lc |-> PositionCache(f1, lc)]

\* a whole call of compile_cell without carried_imports
compile_cell(code, cell_id, pos, test_rewrite, rw, lc) ==
  RunFrame(Frame0(code, cell_id, pos, test_rewrite), rw, lc)

\* ================================================= the notebook file manager
\* Model of AppFileManager (marimo/_server/file_manager.py).  A path is a
\* sequence of characters; the file system maps the paths that exist to
\* their contents.  A call works on a record st of the manager, the file
\* system and the HTTP error raised so far ("" while none was raised).
MaxNotebook == 2

MaxRequests == 2

PyPath(stem) == <<stem, ".", "p", "y">>

Suffix(path, n) ==
  IF Len(path) <= n THEN path ELSE SubSeq(path, Len(path) - n + 1, Len(path))

IsMarkdown(path) ==
  Suffix(path, 3) = <<".", "m", "d">> \/ Suffix(path, 4) = <<".", "q", "m", "d">>

\* canonicalize_filename(filename): a name that is not a notebook path is
\* given the extension .py
canonicalize_filename(filename) ==
  IF Suffix(filename, 3) = <<".", "p", "y">> \/ IsMarkdown(filename)
    THEN filename ELSE filename \o <<".", "p", "y">>

\* self.app.with_data(cell_ids, codes, names, configs): the notebook held in
\* memory becomes the request's
with_data(st, notebook) == [st EXCEPT !.manager.notebook = notebook]

\* self.app.update_config({"layout_file": ...})
update_config(st, layout_file) ==
  [st EXCEPT !.manager.layout_file = layout_file]

\* the file save_layout_config writes next to the notebook
LayoutPath(filename) == <<"l", "/">> \o filename

save_layout_config(st, filename, layout) ==
  [st EXCEPT !.disk =
     [q \in DOMAIN st.disk \cup {LayoutPath(filename)} |->
        IF q = LayoutPath(filename)
          THEN [format |-> "layout", notebook |-> 0, layout_file |-> layout]
          ELSE st.disk[q]]]

is_notebook_named(st) == st.manager.filename # <<>>

\* _is_same_path(filename)
is_same_path(st, filename) ==
  IF st.manager.filename = <<>> THEN FALSE
  ELSE st.manager.filename[1] = filename

\* _assert_path_does_not_exist(filename)
assert_path_does_not_exist(st, filename) ==
  IF filename \in DOMAIN st.disk THEN [st EXCEPT !.error = "BAD_REQUEST"]
                                 ELSE st

\* _create_file(filename, contents); writable is whether the file system
\* accepts the write
create_file(st, filename, contents, writable) ==
  IF ~writable THEN [st EXCEPT !.error = "SERVER_ERROR"]
  ELSE [st EXCEPT !.disk =
          [q \in DOMAIN st.disk \cup {filename} |->
             IF q = filename THEN contents ELSE st.disk[q]]]

\* _rename_file(new_filename): the file of the manager is moved
rename_file(st, new_filename, writable) ==
  LET old == st.manager.filename[1]
  IN IF ~writable \/ old \notin DOMAIN st.disk
       THEN [st EXCEPT !.error = "SERVER_ERROR"]
     ELSE [st EXCEPT !.disk =
             [q \in (DOMAIN st.disk \ {old}) \cup {new_filename} |->
                IF q = new_filename THEN st.disk[old] ELSE st.disk[q]]]

EmptyFile == [format |-> "empty", notebook |-> 0, layout_file |-> <<>>]

\* the text _save_file generates from self.app.to_ir() for the file type
Contents(st, filename) ==
  [format |-> IF IsMarkdown(filename) THEN "md" ELSE "py",
   notebook |-> st.manager.notebook,
   layout_file |-> st.manager.layout_file]

\* _save_file, lines 141-186: generate the contents and persist them
WriteContents(st, filename, persist, writable) ==
  LET s1 == [st EXCEPT !.returned = <<Contents(st, filename)>>]
  IN IF persist THEN create_file(s1, filename, Contents(st, filename), writable)
                ELSE s1

\* rename(new_filename)
rename(st, new_filename, writable) ==
  LET target == canonicalize_filename(new_filename)
      s1 == assert_path_does_not_exist(st, target)
  IN IF is_same_path(st, target) THEN st
     ELSE IF s1.error # "" THEN s1
     ELSE IF is_notebook_named(st)
       THEN LET needs_save == Suffix(st.manager.filename[1], 3)
                                # Suffix(target, 3)
                s2 == rename_file(s1, target, writable)
                s3 == [s2 EXCEPT !.manager.filename = <<target>>]
            IN IF s2.error # "" THEN s2
               ELSE IF needs_save
                 THEN [WriteContents(s3, target, TRUE, writable)
                         EXCEPT !.returned = st.returned]
               ELSE s3
     ELSE LET s2 == create_file(s1, target, EmptyFile, writable)
          IN IF s2.error # "" THEN s2
             ELSE [s2 EXCEPT !.manager.filename = <<target>>]

\* _save_file(filename, notebook, persist)
save_file(st, filename, persist, writable) ==
  LET s1 == WriteContents(st, filename, persist, writable)
  IN IF s1.error # "" THEN s1
     ELSE IF ~is_notebook_named(s1)
       THEN rename(s1, filename, writable)
     ELSE s1

\* save(request)
save(st, request, writable) ==
  LET filename == canonicalize_filename(request.filename)
      s1 == with_data(st, request.notebook)
      s2 == IF request.layout # <<>>
              THEN update_config(
                     save_layout_config(s1, filename, request.layout),
                     <<LayoutPath(filename)>>)
              ELSE update_config(s1, <<>>)
  IN IF is_notebook_named(s1) /\ ~is_same_path(s1, filename)
       THEN [s1 EXCEPT !.error = "BAD_REQUEST"]
     ELSE save_file(s2, filename, request.persist, writable)

\* ================================================================ state
VARIABLES
  linecache,  \* linecache.cache: file name -> entry
  frames,     \* the frame of the current or last call of each thread
  ref,        \* an earlier call without anchor, kept for comparison
  names,      \* a file name being built and parsed back
  walked,     \* a node handed to fix_source_position, before and after
  manager,    \* the AppFileManager: its filename and its notebook
  disk,       \* the file system: path -> contents
  saved       \* the outcome of the last request to the manager

fileVars == <<manager, disk, saved>>

vars == <<linecache, frames, ref, names, walked, manager, disk, saved>>

Threads == {1, 2}

CellIds == {<<"a">>, <<"b">>}

Anchor == [filename |-> <<"/", "n", ".", "p", "y">>, lineno |-> 2,
           col_offset |-> 4]

Anchors == {<<>>, <<Anchor>>}

\* the texts compiled in the specifications that keep a line cache
CellTexts ==
  {<<"x">>, <<"a">>, <<"r">>, <<"#">>, <<";">>, <<"t">>, <<"x", "nbsp">>}

IdleNames == [pc |-> "idle", cell_id |-> <<>>, suffix |-> <<>>,
              filename |-> <<>>, parsed |-> <<>>]

Done(f) == f.pc \in {"returned", "raised"}

IdleWalk == [pc |-> "idle", node |-> NoNode, out |-> NoNode]

IdleManager == [filename |-> <<>>, notebook |-> 0, layout_file |-> <<>>]

FilesIdle ==
  /\ manager = IdleManager
  /\ disk = <<>>
  /\ saved = <<>>

\* ------------------------------------------ Spec: calls one after another
Init ==
  /\ linecache = <<>>
  /\ frames = [p \in Threads |-> IdleFrame]
  /\ ref = <<>>
  /\ names = IdleNames
  /\ walked = IdleWalk
  /\ FilesIdle

Snapshot(f, lc) ==
  [arg |-> f.arg, cell_id |-> f.cell_id, pc |-> f.pc, result |-> f.result,
   entry |-> IF get_filename(f.cell_id, <<>>) \in DOMAIN lc
               THEN <<lc[get_filename(f.cell_id, <<>>)]>> ELSE <<>>]

\* what the rewriting facility can do in a call: it is only called for a
\* cell that is test-only or compiled with test_rewrite
OutcomesFor(code, test_rewrite) ==
  LET f1 == ParseStep(Frame0(code, <<>>, <<>>, test_rewrite))
  IN IF f1.pc = "position" /\ (f1.is_test \/ f1.test_rewrite)
       THEN RewriteOutcomes ELSE {"unused"}

\* one call of compile_cell, run to its end
CompileCell(code, cell_id, pos, test_rewrite, rw) ==
  LET out == compile_cell(code, cell_id, pos, test_rewrite, rw, linecache)
  IN /\ frames' = [frames EXCEPT ![1] = out.frame]
     /\ linecache' = out.lc
     /\ UNCHANGED <<ref, names, walked, fileVars>>

Next ==
  \E code \in CellTexts, cell_id \in CellIds, pos \in Anchors,
     test_rewrite \in BOOLEAN :
    \E rw \in OutcomesFor(code, test_rewrite) :
      CompileCell(code, cell_id, pos, test_rewrite, rw)

Spec == Init /\ [][Next]_vars

\* ----------- SpecTwice: calls one after another, one of them remembered
TwiceTexts == {<<"x">>, <<"#">>, <<"r">>}

\* a call without anchor whose outcome is kept in ref
FirstCall(code, cell_id, test_rewrite, rw) ==
  LET out == compile_cell(code, cell_id, <<>>, test_rewrite, rw, linecache)
  IN /\ ref = <<>>
     /\ frames' = [frames EXCEPT ![1] = out.frame]
     /\ linecache' = out.lc
     /\ ref' = <<Snapshot(out.frame, out.lc)>>
     /\ UNCHANGED <<names, walked, fileVars>>

NextTwice ==
  \E code \in TwiceTexts, cell_id \in CellIds, test_rewrite \in BOOLEAN :
    \E rw \in OutcomesFor(code, test_rewrite) :
      \/ FirstCall(code, cell_id, test_rewrite, rw)
      \/ \E pos \in Anchors : CompileCell(code, cell_id, pos, test_rewrite, rw)

SpecTwice == Init /\ [][NextTwice]_vars

\* --------------------------- SpecText: one call on every text up to MaxLen
InitText ==
  /\ linecache = <<>>
  /\ \E code \in Texts, pos \in Anchors, test_rewrite \in BOOLEAN :
       frames = [p \in Threads |->
                   IF p = 1 THEN Frame0(code, <<"a">>, pos, test_rewrite)
                   ELSE IdleFrame]
  /\ ref = <<>>
  /\ names = IdleNames
  /\ walked = IdleWalk
  /\ FilesIdle

TextCompile ==
  /\ frames[1].pc = "start"
  /\ \E rw \in OutcomesFor(frames[1].arg, frames[1].test_rewrite) :
       LET f == frames[1]
           out == compile_cell(f.arg, f.cell_id, f.pos, f.test_rewrite, rw,
                               linecache)
       IN /\ frames' = [frames EXCEPT ![1] = out.frame]
          /\ linecache' = out.lc
  /\ UNCHANGED <<ref, names, walked, fileVars>>

NextText == TextCompile

SpecText == InitText /\ [][NextText]_vars

\* ------------------------------ SpecThreads: two calls, steps interleaved
ThreadTexts == {<<"x">>, <<"a">>, <<"r">>, <<"#">>, <<"t">>}

InitThreads ==
  /\ linecache = <<>>
  /\ frames \in [Threads ->
                   {Frame0(code, cell_id, pos, test_rewrite) :
                      code \in ThreadTexts, cell_id \in CellIds,
                      pos \in Anchors, test_rewrite \in BOOLEAN}]
  /\ ref = <<>>
  /\ names = IdleNames
  /\ walked = IdleWalk
  /\ FilesIdle

ThreadParse(p) ==
  /\ frames[p].pc = "start"
  /\ frames' = [frames EXCEPT ![p] = ParseStep(frames[p])]
  /\ UNCHANGED <<linecache, ref, names, walked, fileVars>>

ThreadPosition(p) ==
  /\ frames[p].pc = "position"
  /\ frames' = [frames EXCEPT ![p] = PositionFrame(frames[p])]
  /\ linecache' = PositionCache(frames[p], linecache)
  /\ UNCHANGED <<ref, names, walked, fileVars>>

ThreadRewrite(p) ==
  /\ frames[p].pc = "rewrite"
  /\ \E rw \in OutcomesFor(frames[p].arg, frames[p].test_rewrite) :
       frames' = [frames EXCEPT ![p] = RewriteStep(frames[p], rw)]
  /\ UNCHANGED <<linecache, ref, names, walked, fileVars>>

ThreadCompile(p) ==
  /\ frames[p].pc = "compile"
  /\ frames' = [frames EXCEPT ![p] = CompileStep(frames[p])]
  /\ UNCHANGED <<linecache, ref, names, walked, fileVars>>

NextThreads ==
  \E p \in Threads :
    \/ ThreadParse(p)
    \/ ThreadPosition(p)
    \/ ThreadRewrite(p)
    \/ ThreadCompile(p)

SpecThreads == InitThreads /\ [][NextThreads]_vars

\* ------------------------- SpecNames: file names built and parsed back
InitNames ==
  /\ linecache = <<>>
  /\ frames = [p \in Threads |-> IdleFrame]
  /\ ref = <<>>
  /\ \E cell_id \in SeqsUpTo(IdChars, MaxIdLen),
        suffix \in SeqsUpTo(SuffixChars, MaxSuffixLen) :
       names = [pc |-> "start", cell_id |-> cell_id, suffix |-> suffix,
                filename |-> <<>>, parsed |-> <<>>]
  /\ walked = IdleWalk
  /\ FilesIdle

GetFilename ==
  /\ names.pc = "start"
  /\ names' = [names EXCEPT !.pc = "named",
                 !.filename = get_filename(names.cell_id, names.suffix)]
  /\ UNCHANGED <<linecache, frames, ref, walked, fileVars>>

CellIdFromFilename ==
  /\ names.pc = "named"
  /\ names' = [names EXCEPT !.pc = "parsed",
                 !.parsed = cell_id_from_filename(names.filename)]
  /\ UNCHANGED <<linecache, frames, ref, walked, fileVars>>

NextNames == GetFilename \/ CellIdFromFilename

SpecNames == InitNames /\ [][NextNames]_vars

\* --------------- SpecNodes: fix_source_position on one node of a tree
MaxLineNo == 3

MaxCol == 1

\* a node that carries the location attributes in has
WalkNode(kind, has, line, col) ==
  [kind |-> kind, name |-> <<>>, inner |-> {},
   lineno |-> IF "lineno" \in has THEN line ELSE 0,
   col_offset |-> IF "col_offset" \in has THEN col ELSE 0,
   end_lineno |-> IF "end_lineno" \in has THEN line ELSE 0,
   end_col_offset |-> IF "end_col_offset" \in has THEN col + 1 ELSE 0,
   has |-> has]

\* the nodes ast.walk can yield: parsed nodes carry every attribute, nodes
\* built by hand carry the ones their constructor was given, a TypeIgnore
\* has lineno as a field, a Module has no location
WalkNodes ==
  {WalkNode("Constant", has, line, col) :
     has \in SUBSET LocationAttrs, line \in 1..MaxLineNo, col \in 0..MaxCol}
  \cup {WalkNode("TypeIgnore", {"lineno"}, line, 0) : line \in 1..MaxLineNo}
  \cup {WalkNode("Module", {}, 1, 0)}

InitNodes ==
  /\ linecache = <<>>
  /\ frames = [p \in Threads |-> IdleFrame]
  /\ ref = <<>>
  /\ names = IdleNames
  /\ \E node \in WalkNodes :
       walked = [pc |-> "start", node |-> node, out |-> NoNode]
  /\ FilesIdle

FixSourcePosition ==
  /\ walked.pc = "start"
  /\ walked' = [walked EXCEPT
                  !.pc = "fixed",
                  !.out = fix_source_position(<<walked.node>>, Anchor)[1]]
  /\ UNCHANGED <<linecache, frames, ref, names, fileVars>>

NextNodes == FixSourcePosition

SpecNodes == InitNodes /\ [][NextNodes]_vars

\* ------------- SpecImports: one call with a record of carried imports
ImportItems == {"i", "j", "a", "nl", ";"}

ImportTexts == SeqsUpTo(ImportItems, MaxLen)

\* the descriptors of: import os, import sys as os, import os as x
PriorImports ==
  {[module |-> <<"o", "s">>, imported_symbol |-> <<>>,
    definition |-> <<"o", "s">>],
   [module |-> <<"s", "y", "s">>, imported_symbol |-> <<>>,
    definition |-> <<"o", "s">>],
   [module |-> <<"o", "s">>, imported_symbol |-> <<>>,
    definition |-> <<"x">>]}

\* carried_imports: None, or a list of descriptors
CarriedImports == {<<>>} \cup {<<record>> : record \in SUBSET PriorImports}

InitImports ==
  /\ linecache = <<>>
  /\ \E code \in ImportTexts, carried \in CarriedImports :
       frames = [p \in Threads |->
                   IF p = 1
                     THEN [Frame0(code, <<"a">>, <<>>, FALSE)
                             EXCEPT !.carried = carried]
                     ELSE IdleFrame]
  /\ ref = <<>>
  /\ names = IdleNames
  /\ walked = IdleWalk
  /\ FilesIdle

ImportCompile ==
  /\ frames[1].pc = "start"
  /\ \E rw \in OutcomesFor(frames[1].arg, frames[1].test_rewrite) :
       LET out == RunFrame(frames[1], rw, linecache)
       IN /\ frames' = [frames EXCEPT ![1] = out.frame]
          /\ linecache' = out.lc
  /\ UNCHANGED <<ref, names, walked, fileVars>>

NextImports == ImportCompile

SpecImports == InitImports /\ [][NextImports]_vars

\* ------------------ SpecFiles: requests to one AppFileManager, in turn
Paths == {PyPath("a"), PyPath("b"), <<"b">>, <<"c", ".", "m", "d">>}

Layouts == {<<>>, <<"grid">>}

SaveRequests ==
  [filename : Paths, notebook : 1..MaxNotebook, layout : Layouts,
   persist : BOOLEAN]

\* the manager and the file system as a call finds them
Current == [manager |-> manager, disk |-> disk, error |-> "", returned |-> <<>>]

\* a manager built without a file, or on the notebook file a.py; b.py may
\* be on the file system already
InitFiles ==
  /\ linecache = <<>>
  /\ frames = [p \in Threads |-> IdleFrame]
  /\ ref = <<>>
  /\ names = IdleNames
  /\ walked = IdleWalk
  /\ manager \in {IdleManager, [IdleManager EXCEPT !.filename = <<PyPath("a")>>]}
  /\ \E others \in SUBSET {PyPath("b")} :
       disk = [q \in others \cup {manager.filename[k] :
                                     k \in 1..Len(manager.filename)} |->
                 [format |-> "py", notebook |-> 0, layout_file |-> <<>>]]
  /\ saved = <<>>

\* the number of requests the manager has served
Requests == IF saved = <<>> THEN 0 ELSE saved[1].count

Outcome(op, request, writable, st) ==
  [op |-> op, count |-> Requests + 1, request |-> request, writable |-> writable,
   error |-> st.error,
   returned |-> IF st.error = "" THEN st.returned ELSE <<>>,
   before |-> [manager |-> manager, disk |-> disk]]

\* AppFileManager.save(request)
Save(request, writable) ==
  LET st == save(Current, request, writable)
  IN /\ Requests < MaxRequests
     /\ manager' = st.manager
     /\ disk' = st.disk
     /\ saved' = <<Outcome("save", request, writable, st)>>
     /\ UNCHANGED <<linecache, frames, ref, names, walked>>

\* AppFileManager.rename(new_filename)
Rename(new_filename, writable) ==
  LET st == rename(Current, new_filename, writable)
      request == [filename |-> new_filename, notebook |-> manager.notebook,
                  layout |-> <<>>, persist |-> FALSE]
  IN /\ Requests < MaxRequests
     /\ manager' = st.manager
     /\ disk' = st.disk
     /\ saved' = <<Outcome("rename", request, writable, st)>>
     /\ UNCHANGED <<linecache, frames, ref, names, walked>>

NextFiles ==
  \E writable \in BOOLEAN :
    \/ \E request \in SaveRequests : Save(request, writable)
    \/ \E new_filename \in Paths : Rename(new_filename, writable)

SpecFiles == InitFiles /\ [][NextFiles]_vars

\* ================================================================ claims
TheCall == frames[1]

Shape(stmts) == [k \in 1..Len(stmts) |-> <<stmts[k].kind, stmts[k].name>>]

\* the last item of the text that is not whitespace, a newline or part of a
\* comment is a semicolon
LastMeaningfulIsSemicolon(text) ==
  \E k \in 1..Len(text) :
    /\ text[k] = ";"
    /\ ~InComment(text, k)
    /\ \A j \in (k + 1)..Len(text) :
         IsSpace(text[j]) \/ text[j] = "#" \/ InComment(text, j)

\* the text holds nothing but whitespace, newlines and comments
IsBlankText(text) ==
  \A k \in 1..Len(text) :
    IsSpace(text[k]) \/ text[k] = "#" \/ InComment(text, k)

\* C1: for a non-empty cell the last top-level statement is detached as the
\* trailing value exactly when it is a bare expression and the last
\* meaningful token of the text is not a semicolon; then the statement body
\* is every statement but the last and the evaluator computes that
\* expression; otherwise the body keeps every statement and the evaluator
\* yields None.
C1_TrailingSplit ==
  (Done(TheCall) /\ TheCall.parsed # <<>>) =>
    LET f == TheCall
        final == f.parsed[Len(f.parsed)]
        detach == final.kind = "Expr" /\ ~LastMeaningfulIsSemicolon(f.arg)
    IN /\ f.expr.detached = detach
       /\ detach =>
            /\ Shape(f.module) = Shape(SubSeq(f.parsed, 1, Len(f.parsed) - 1))
            /\ f.expr.value.kind = "Name"
            /\ f.expr.value.name = final.name
       /\ ~detach =>
            /\ Shape(f.module) = Shape(f.parsed)
            /\ f.expr.value.kind = "Constant"
       /\ f.pc = "returned" =>
            /\ f.result[1].body[1].stmts = f.module
            /\ f.result[1].last_expr[1].expr = f.expr

\* a cell that ends in an expression closed by a semicolon and a comment is
\* returned with its whole body and a None evaluator
C1_Witness ==
  /\ TheCall.pc = "returned"
  /\ TheCall.parsed # <<>>
  /\ TheCall.parsed[Len(TheCall.parsed)].kind = "Expr"
  /\ LastMeaningfulIsSemicolon(TheCall.arg)
  /\ TheCall.arg[Len(TheCall.arg)] = "#"
  /\ ~TheCall.expr.detached

C3_EmptyCell ==
  (TheCall.pc # "start" /\ TheCall.pc # "idle" /\ IsBlankText(TheCall.arg)) =>
    /\ TheCall.pc = "returned"
    /\ TheCall.result[1].defs = {}
    /\ TheCall.result[1].refs = {}
    /\ TheCall.result[1].temporaries = {}
    /\ TheCall.result[1].body = <<>>
    /\ TheCall.result[1].last_expr = <<>>
    /\ TheCall.result[1].key = code_key(<<>>)
    /\ ~TheCall.wrote
    /\ DOMAIN linecache = {}

\* a comment after a blank line has been compiled
C3_Witness ==
  /\ TheCall.pc = "returned"
  /\ Len(TheCall.arg) = 3
  /\ TheCall.arg[3] = "#"
  /\ IsBlankText(TheCall.arg)
  /\ TheCall.result[1].body = <<>>

IsTestDef(node) ==
  /\ node.kind \in {"FunctionDef", "AsyncFunctionDef", "ClassDef"}
  /\ StartsWithTest(node.name)

Classified(f) == f.pc \in {"returned", "raised"} /\ f.parsed # <<>>

\* C5 as stated: a cell is test-only exactly when every top-level statement
\* is a test definition or the body holds a return statement anywhere.
C5_ReturnAnywhere ==
  Classified(TheCall) =>
    (TheCall.is_test <=>
       \/ \A k \in 1..Len(TheCall.parsed) : IsTestDef(TheCall.parsed[k])
       \/ \E k \in 1..Len(TheCall.parsed) : TheCall.parsed[k].kind = "Return")

\* C5 as amended: a cell is test-only exactly when every top-level statement
\* is a test definition, or the body holds a return statement and every
\* statement before the first one is a test definition.
C5_ReturnAfterTests ==
  Classified(TheCall) =>
    (TheCall.is_test <=>
       \/ \A k \in 1..Len(TheCall.parsed) : IsTestDef(TheCall.parsed[k])
       \/ \E k \in 1..Len(TheCall.parsed) :
            /\ TheCall.parsed[k].kind = "Return"
            /\ \A j \in 1..(k - 1) : IsTestDef(TheCall.parsed[j]))

\* a class named TestB followed by a return statement is test-only
C5_Witness ==
  /\ Classified(TheCall)
  /\ Len(TheCall.parsed) = 2
  /\ TheCall.parsed[1].kind = "ClassDef"
  /\ TheCall.parsed[2].kind = "Return"
  /\ TheCall.is_test

\* C4 as stated: a call that raises leaves the line cache as it was before
\* the call.
C4_RaiseLeavesCache ==
  [][frames'[1].pc = "raised" => linecache' = linecache]_vars

C7_CacheGrows ==
  [][LET f == frames'[1]
         name == get_filename(f.cell_id, <<>>)
     IN /\ \A n \in DOMAIN linecache :
             n \in DOMAIN linecache' /\ (n # name => linecache'[n] = linecache[n])
        /\ (f.pos = <<>> /\ f.parsed # <<>>) =>
             /\ name \in DOMAIN linecache'
             /\ linecache'[name].size = StrLen(f.code)
             /\ linecache'[name].lines =
                  [k \in 1..Len(SplitLines(f.code)) |->
                     SplitLines(f.code)[k] \o <<"nl">>]
        /\ f.pos # <<>> => linecache' = linecache]_vars

\* two cells are registered and the last call, made with an anchor, left
\* them in place
C7_Witness ==
  /\ Cardinality(DOMAIN linecache) = 2
  /\ TheCall.pc = "returned"
  /\ TheCall.pos # <<>>
  /\ linecache[get_filename(TheCall.cell_id, <<>>)].size # StrLen(TheCall.code)

\* C8: two compilations of cells with distinct ids, their steps interleaved
\* in any way, register under distinct file names, keep each other's entry,
\* and end with the frames and the line cache that running one call after
\* the other gives.
C8_Independent ==
  \A p, q \in Threads :
    (/\ p # q
     /\ Done(frames[p])
     /\ Done(frames[q])
     /\ frames[p].cell_id # frames[q].cell_id) =>
      LET fp == frames[p]
          fq == frames[q]
          sp == compile_cell(fp.arg, fp.cell_id, fp.pos, fp.test_rewrite,
                             fp.rw, <<>>)
          sq == compile_cell(fq.arg, fq.cell_id, fq.pos, fq.test_rewrite,
                             fq.rw, sp.lc)
      IN /\ fp = sp.frame
         /\ fq = sq.frame
         /\ linecache = sq.lc
         /\ fp.wrote =>
              /\ get_filename(fp.cell_id, <<>>) \in DOMAIN linecache
              /\ linecache[get_filename(fp.cell_id, <<>>)].size = StrLen(fp.code)
              /\ linecache[get_filename(fp.cell_id, <<>>)].fullname = fp.filename
         /\ (fp.wrote /\ fq.wrote) => fp.filename # fq.filename

\* both threads have returned cells of different texts and distinct ids, and
\* both registered their text
C8_Witness ==
  /\ frames[1].pc = "returned"
  /\ frames[2].pc = "returned"
  /\ frames[1].cell_id # frames[2].cell_id
  /\ frames[1].arg # frames[2].arg
  /\ frames[1].wrote
  /\ frames[2].wrote
  /\ Cardinality(DOMAIN linecache) = 2

SameAsRef(f) ==
  /\ ref # <<>>
  /\ Done(f)
  /\ f.arg = ref[1].arg
  /\ f.cell_id = ref[1].cell_id
  /\ f.pos = <<>>

CurrentEntry(f) == Snapshot(f, linecache).entry

SameOutcome(f) ==
  /\ f.pc = ref[1].pc
  /\ f.pc = "returned" =>
       /\ f.result[1].key = ref[1].result[1].key
       /\ f.result[1].defs = ref[1].result[1].defs
       /\ f.result[1].refs = ref[1].result[1].refs
       /\ f.result[1].temporaries = ref[1].result[1].temporaries

\* C9 as stated: compiling a text again with the same cell id and no anchor
\* gives the same key, defs, refs and temporaries and leaves the cell's line
\* cache entry as it was after the first call.
C9_Idempotent ==
  SameAsRef(TheCall) =>
    /\ SameOutcome(TheCall)
    /\ CurrentEntry(TheCall) = ref[1].entry

\* C9 as amended: compiling a text again with the same cell id and no anchor
\* gives the same key, defs, refs and temporaries, and when the parsed body
\* of the text is not empty it leaves the cell's line cache entry as it was
\* after the first call.
C9_IdempotentNonEmpty ==
  SameAsRef(TheCall) =>
    /\ SameOutcome(TheCall)
    /\ ~IsBlankText(TheCall.arg) => CurrentEntry(TheCall) = ref[1].entry

\* a text was compiled a second time, with another outcome of the assertion
\* rewriting than the first time
C9_Witness ==
  /\ SameAsRef(TheCall)
  /\ TheCall.pc = "returned"
  /\ TheCall.parsed # <<>>
  /\ TheCall.result # ref[1].result

\* C10 as stated: the cell id is recovered from the file name built for it,
\* and no other cell id gives the same file name with the same suffix.
C10_RoundTrip ==
  names.pc = "parsed" =>
    /\ names.parsed = <<names.cell_id>>
    /\ \A other \in SeqsUpTo(IdChars, MaxIdLen) :
         other # names.cell_id =>
           get_filename(other, names.suffix) # names.filename

\* the same call without its anchor, on an empty line cache
WithoutAnchor(f) ==
  compile_cell(f.arg, f.cell_id, <<>>, f.test_rewrite, f.rw, <<>>).frame

LineAttrs == {"lineno", "end_lineno"}

\* node n carries the attributes of node m, each moved by the anchor's offset
ShiftedBy(n, m, pos) ==
  /\ n.has = m.has
  /\ \A attr \in m.has :
       GetAttr(n, attr) =
         GetAttr(m, attr) + (IF attr \in LineAttrs THEN pos.lineno
                                                   ELSE pos.col_offset)

\* C11: when an anchor is supplied, every position-bearing node of the
\* statement body and of the trailing expression has its line and end-line
\* equal to the value of the compilation without anchor plus the anchor's
\* line offset, its column and end-column equal to that value plus the
\* anchor's column offset, and both artifacts are compiled under the anchor's
\* filename instead of the synthetic one.
C11_AnchorShifts ==
  (TheCall.pc = "returned" /\ TheCall.pos # <<>>
     /\ TheCall.result[1].body # <<>>) =>
    LET base == WithoutAnchor(TheCall)
        pos == TheCall.pos[1]
        got == TheCall.result[1]
    IN /\ base.pc = "returned"
       /\ base.result[1].body # <<>>
       /\ LET was == base.result[1]
          IN /\ Len(got.body[1].stmts) = Len(was.body[1].stmts)
             /\ \A k \in 1..Len(got.body[1].stmts) :
                  ShiftedBy(got.body[1].stmts[k], was.body[1].stmts[k], pos)
             /\ ShiftedBy(got.last_expr[1].expr.value,
                          was.last_expr[1].expr.value, pos)
             /\ got.body[1].filename = pos.filename
             /\ got.last_expr[1].filename = pos.filename
             /\ was.body[1].filename = get_filename(TheCall.cell_id, <<>>)
             /\ was.last_expr[1].filename = get_filename(TheCall.cell_id, <<>>)
             /\ pos.filename # get_filename(TheCall.cell_id, <<>>)

C11_Witness ==
  /\ TheCall.pc = "returned"
  /\ TheCall.pos # <<>>
  /\ TheCall.result[1].body # <<>>
  /\ TheCall.result[1].last_expr[1].expr.detached
  /\ Len(TheCall.result[1].body[1].stmts) >= 1
  /\ TheCall.result[1].body[1].stmts[1].lineno = Anchor.lineno + 1
  /\ TheCall.result[1].last_expr[1].expr.value.col_offset > Anchor.col_offset

\* C12: fix_source_position leaves untouched every location attribute that
\* is absent on a node: an attribute the node does not carry before the call
\* it does not carry after the call, and a node that carries only a line
\* number (a type-ignore comment) has only its line shifted.
C12_AbsentStaysAbsent ==
  walked.pc = "fixed" =>
    /\ \A attr \in LocationAttrs :
         attr \notin walked.node.has => attr \notin walked.out.has
    /\ walked.node.kind = "TypeIgnore" =>
         walked.out = [walked.node EXCEPT !.lineno = @ + Anchor.lineno]

C13_ReadAndBound ==
  /\ TheCall.pc = "returned"
  /\ ReadNames(TheCall.parsed) \cap TheCall.result[1].defs # {}

\* the cell is made of import statements only
ImportOnly(scope) ==
  Len(scope) > 0 /\ \A k \in 1..Len(scope) : scope[k].kind = "Import"

\* a statement of the cell imports name with a descriptor of the record
SameImport(scope, name, record) ==
  \E k \in 1..Len(scope) :
    /\ scope[k].kind = "Import"
    /\ scope[k].name = name
    /\ [module |-> ImportedModule, imported_symbol |-> <<>>,
        definition |-> name] \in record

\* C14: the carried-over set of the import workspace contains a definition
\* exactly when the cell is import-only, a record of prior imports was
\* supplied and the definition's import descriptor equals a descriptor of
\* the record; a definition that only shares its name with a prior import is
\* not carried over, the set is empty when the cell is not import-only or no
\* record was supplied, and it is always a subset of defs.
C14_CarriedByDescriptor ==
  TheCall.pc = "returned" =>
    LET cell == TheCall.result[1]
    IN /\ \A name \in cell.defs \cup cell.imported_defs :
            name \in cell.imported_defs <=>
              /\ ImportOnly(TheCall.parsed)
              /\ TheCall.carried # <<>>
              /\ SameImport(TheCall.parsed, name, TheCall.carried[1])
       /\ (~ImportOnly(TheCall.parsed) \/ TheCall.carried = <<>>) =>
            cell.imported_defs = {}
       /\ cell.imported_defs \subseteq cell.defs
       /\ cell.is_import_block = ImportOnly(TheCall.parsed)

C14_Witness ==
  /\ TheCall.pc = "returned"
  /\ TheCall.carried # <<>>
  /\ TheCall.result[1].imported_defs # {}
  /\ \E name \in TheCall.result[1].defs \ TheCall.result[1].imported_defs :
       \E previous \in TheCall.carried[1] : previous.definition = name

LastSave == saved[1]

\* the last request was a save that asked a named manager for another path
SaveToOtherPath ==
  /\ saved # <<>>
  /\ LastSave.op = "save"
  /\ LastSave.before.manager.filename # <<>>
  /\ LastSave.before.manager.filename[1]
       # canonicalize_filename(LastSave.request.filename)

\* C15: AppFileManager.save never renames: when the manager has a filename
\* and the request's canonicalized filename is a different path, save raises
\* BAD_REQUEST, writes no notebook or layout file, and leaves the manager's
\* filename and its in-memory notebook as they were before the call.
C15_RejectedSaveChangesNothing ==
  SaveToOtherPath =>
    /\ LastSave.error = "BAD_REQUEST"
    /\ disk = LastSave.before.disk
    /\ manager.filename = LastSave.before.manager.filename
    /\ manager.notebook = LastSave.before.manager.notebook

\* the last request was a persisting save of an unnamed notebook to a path
\* that did not exist, on a file system that accepts writes
FirstSave ==
  /\ saved # <<>>
  /\ LastSave.op = "save"
  /\ LastSave.before.manager.filename = <<>>
  /\ LastSave.request.persist
  /\ LastSave.writable
  /\ canonicalize_filename(LastSave.request.filename)
       \notin DOMAIN LastSave.before.disk

\* the last request was a save of a named notebook to its own path
SaveToSamePath ==
  /\ saved # <<>>
  /\ LastSave.op = "save"
  /\ LastSave.writable
  /\ LastSave.before.manager.filename
       = <<canonicalize_filename(LastSave.request.filename)>>

\* C16: saving an unnamed notebook with persist = true to a path that does
\* not exist completes without raising, leaves the generated contents
\* written at that path and the manager named with the canonicalized path;
\* a later save to the same path is accepted.
C16_FirstSaveNamesNotebook ==
  /\ FirstSave =>
       LET path == canonicalize_filename(LastSave.request.filename)
       IN /\ LastSave.error = ""
          /\ path \in DOMAIN disk
          /\ <<disk[path]>> = LastSave.returned
          /\ manager.filename = <<path>>
  /\ SaveToSamePath => LastSave.error = ""

====
